---- MODULE Spec2Model ----
(***************************************************************************)
(* A model of the patch scripts of Nubi.Agent.  Each script reads one or   *)
(* more TypeScript files, rewrites them in memory and writes them back.    *)
(*                                                                         *)
(* A file read with readlines() is a sequence of lines; a line is a        *)
(* sequence of tokens, the last of which is "\n".  A file read with read() *)
(* is one sequence of tokens.  A token is a piece of text; the text the    *)
(* scripts search for ('templates: {', 'delete', '//', ...) lies inside    *)
(* one token, never across two, so that Python's `needle in line` is       *)
(* "some token of the line holds the needle".  The token "x" stands for    *)
(* text that holds none of the needles, no brace and no whitespace.        *)
(***************************************************************************)
EXTENDS Integers, Sequences, FiniteSets, TLC

VARIABLES
    nubiCharacter,   \* lines of src/nubi-character.ts
    errorHandler,    \* lines of src/utils/error-handler.ts
    analytics,       \* content of src/services/socket-io-analytics-enhanced.ts
    raidSystem,      \* content of src/core/nubi-raid-system.ts
    securityFilter,  \* content of src/services/security-filter.ts
    hist             \* one record per script run: what ran, what it printed,
                     \* whether it wrote the file, the file as it read it and
                     \* the file as it left it

vars == <<nubiCharacter, errorHandler, analytics, raidSystem, securityFilter, hist>>

(***************************************************************************)
(* Bounds of the model.                                                    *)
(***************************************************************************)
MaxTail == 3

MaxRuns == 2

MaxErrLines == 109

MaxContent == 3

MaxLog == 5

(***************************************************************************)
(* Python values.                                                          *)
(***************************************************************************)
None == -1

\* `if i:` on an index that is None or an int: None and 0 are both falsy.
Truthy(i) == i # None /\ i # 0

SeqsUpTo(S, n) == UNION {[1..k -> S] : k \in 0..n}

(***************************************************************************)
(* Text.                                                                   *)
(***************************************************************************)
NL == "\n"

AnchorText == "  templates: {"

ExportText == "export default nubiCharacter;"

HeaderComment == "// Export templates for use in other modules"

HeaderDecl == "export const nubiTemplates = {"

ImportText == "import { nubiTemplates } from \"./nubi-templates\";"

ReExportText == "export { nubiTemplates } from \"./nubi-templates\";"

ClassDecl == "export class SocketIOAnalyticsService extends Service {"

IoDecl == "    private io: any = null;"

StopHeader == "    async stop(): Promise<void> {"

\* The text of stop_method (fix-event-emitter.py), as one token.
StopMethod == "\n    async stop(): Promise<void> {...}\n"

LogErrorSig == "private static logError(error: ServiceError): void {"

HistoryGet == "this.messageHistory.get(userId)"

RateComment == "// Check for rate limiting"

\* The text of new_code (fix-spam-detection.py), as one token.
RepetitiveCheck == "    // Check for repetitive content ... this.messageHistory.get(userId) ... \n\n"

\* The needles of the scripts that occur inside a token.
Substrings(tok) ==
    CASE tok = AnchorText    -> {"  templates: {", "templates: {", "{"}
      [] tok = ExportText    -> {"export default nubiCharacter;", "nubiCharacter", ";"}
      [] tok = HeaderComment -> {"//"}
      [] tok = HeaderDecl    -> {"{"}
      [] tok = ImportText    -> {"import { nubiTemplates }", "{", "}", ";"}
      [] tok = ReExportText  -> {"export { nubiTemplates }", "{", "}", ";"}
      [] tok = ClassDecl     -> {"{"}
      [] tok = IoDecl        -> {"private io:", ";"}
      [] tok = StopHeader    -> {"async stop()", "{"}
      [] tok = StopMethod    -> {"async stop()", "{", "}", ";"}
      [] tok = LogErrorSig   -> {LogErrorSig, "{"}
      [] tok = RateComment   -> {RateComment, "//"}
      [] tok = RepetitiveCheck ->
             {HistoryGet, "// Check for repetitive content", "//", "{", "}", ";"}
      [] OTHER               -> {tok}

\* needle in line
Contains(line, needle) == \E k \in 1..Len(line) : needle \in Substrings(line[k])

RECURSIVE CountFrom(_, _, _)
CountFrom(line, ch, k) ==
    IF k > Len(line) THEN 0
    ELSE (IF ch \in Substrings(line[k]) THEN 1 ELSE 0) + CountFrom(line, ch, k + 1)

\* line.count(ch): every token holds a brace at most once
Count(line, ch) == CountFrom(line, ch, 1)

\* line.endswith(';\n')
EndsWithSemiNL(line) ==
    /\ Len(line) >= 2
    /\ line[Len(line)] = NL
    /\ line[Len(line) - 1] \in {";", ExportText, ImportText, ReExportText}

Whitespace == {" ", "  ", NL}

RECURSIVE RStrip(_)
\* line.rstrip()
RStrip(line) ==
    IF line = <<>> THEN <<>>
    ELSE IF line[Len(line)] \in Whitespace THEN RStrip(SubSeq(line, 1, Len(line) - 1))
    ELSE line

RECURSIVE FindFrom(_, _, _)
\* for i, line in enumerate(lines): if needle in line: found = i; break
FindFrom(lines, needle, i) ==
    IF i >= Len(lines) THEN None
    ELSE IF Contains(lines[i + 1], needle) THEN i
    ELSE FindFrom(lines, needle, i + 1)

\* lines[i:] for 0 <= i
From(lines, i) == SubSeq(lines, i + 1, Len(lines))

\* lines[:i]
Upto(lines, i) == SubSeq(lines, 1, i)

(***************************************************************************)
(* fix-templates.py                                                        *)
(***************************************************************************)
templates_start(lines) == FindFrom(lines, "  templates: {", 0)

export_line(lines) == FindFrom(lines, "export default nubiCharacter;", 0)

TemplatesHeader ==
    << <<NL>>, <<HeaderComment, NL>>, <<HeaderDecl, NL>> >>

\* lines[:export_line+1] and the three lines of the new declaration
lines_to_keep0(lines) == Upto(lines, export_line(lines) + 1) \o TemplatesHeader

BraceDelta(line) == Count(line, "{") - Count(line, "}")

AnchorResetsCount(line) == Contains(line, "templates: {")

RECURSIVE ExtractLoop(_, _, _, _, _)
\* The extraction loop: keep is lines_to_keep, brk the index of the line at
\* which the loop executed `break` (None when range() ran out).
ExtractLoop(lines, i, in_templates, brace_count, keep) ==
    IF i >= Len(lines) THEN [keep |-> keep, brk |-> None]
    ELSE LET line == lines[i + 1] IN
         IF AnchorResetsCount(line)
         THEN ExtractLoop(lines, i + 1, TRUE, 1, keep)
         ELSE IF in_templates
         THEN LET bc == brace_count + BraceDelta(line) IN
              IF bc = 0 THEN [keep |-> Append(keep, line), brk |-> i]
              ELSE ExtractLoop(lines, i + 1, TRUE, bc, Append(keep, line))
         ELSE ExtractLoop(lines, i + 1, in_templates, brace_count, keep)

Extracted(lines) ==
    ExtractLoop(lines, templates_start(lines), FALSE, 0, lines_to_keep0(lines))

\* if not lines_to_keep[-1].endswith(';\n'): lines_to_keep[-1] = ....rstrip() + ';\n'
CloseLine(line) ==
    IF EndsWithSemiNL(line) THEN line ELSE RStrip(line) \o <<";", NL>>

CloseFile(keep) ==
    [keep EXCEPT ![Len(keep)] = CloseLine(keep[Len(keep)])]

\* TailStep with one `if` per alternative instead of one `or`.
TailStepPerAlternative(keep, line) ==
    LET k1 == IF Contains(line, "delete") THEN Append(keep, line) ELSE keep
    IN  IF Contains(line, "//") THEN Append(k1, line) ELSE k1

\* if 'delete' in line or '//' in line: lines_to_keep.append(line)
TailStep(keep, line) ==
    IF Contains(line, "delete") \/ Contains(line, "//") THEN Append(keep, line) ELSE keep

RECURSIVE TailLoop(_, _)
\* for line in rest: TailStep
TailLoop(keep, rest) ==
    IF rest = <<>> THEN keep ELSE TailLoop(TailStep(keep, Head(rest)), Tail(rest))

\* The lines the tail loop of fix-templates.py iterates over.
TailSource(lines) == From(lines, export_line(lines) + 1)

MsgFixed == "Fixed templates structure"

MsgOrderOK == "Export/templates order seems OK"

MsgNotFound == "Could not find templates definition"

Relocates(lines) ==
    /\ Truthy(templates_start(lines))
    /\ Truthy(export_line(lines))
    /\ templates_start(lines) > export_line(lines)

\* The whole script, as a function of the file it reads.
FixTemplates(lines) ==
    IF ~Truthy(templates_start(lines))
    THEN [out |-> lines, wrote |-> FALSE, msg |-> MsgNotFound]
    ELSE IF ~(Truthy(export_line(lines)) /\ templates_start(lines) > export_line(lines))
    THEN [out |-> lines, wrote |-> FALSE, msg |-> MsgOrderOK]
    ELSE [out   |-> TailLoop(CloseFile(Extracted(lines).keep), TailSource(lines)),
          wrote |-> TRUE,
          msg   |-> MsgFixed]

(***************************************************************************)
(* fix-nubi-final.py                                                       *)
(***************************************************************************)
\* clean_lines.insert(1, x)
Insert1(s, x) ==
    IF Len(s) = 0 THEN <<x>> ELSE <<s[1], x>> \o SubSeq(s, 2, Len(s))

\* if 'delete' in line and 'nubiCharacter' in line: clean_lines.append(line)
DeleteStep(keep, line) ==
    IF Contains(line, "delete") /\ Contains(line, "nubiCharacter")
    THEN Append(keep, line) ELSE keep

RECURSIVE DeleteLoop(_, _)
DeleteLoop(keep, rest) ==
    IF rest = <<>> THEN keep ELSE DeleteLoop(DeleteStep(keep, Head(rest)), Tail(rest))

FinalExports ==
    << <<HeaderComment, NL>>, <<ReExportText, NL>>, <<NL>> >>

clean_lines0(lines) ==
    Insert1(Append(Upto(lines, export_line(lines) + 1), <<NL>>), <<ImportText, NL>>)
        \o FinalExports

MsgCleaned == "Cleaned up nubi-character.ts"

MsgNothing == ""

NubiFinal(lines) ==
    IF ~Truthy(export_line(lines))
    THEN [out |-> lines, wrote |-> FALSE, msg |-> MsgNothing]
    ELSE [out   |-> DeleteLoop(clean_lines0(lines), From(lines, export_line(lines) + 1)),
          wrote |-> TRUE,
          msg   |-> MsgCleaned]

(***************************************************************************)
(* Runs of the scripts on nubi-character.ts.                               *)
(***************************************************************************)
Ran(script, r, before) ==
    [script |-> script, msg |-> r.msg, wrote |-> r.wrote,
     before |-> before, after |-> r.out]

RunFixTemplates ==
    /\ Len(hist) < MaxRuns
    /\ LET r == FixTemplates(nubiCharacter) IN
        /\ nubiCharacter' = r.out
        /\ hist' = Append(hist, Ran("fix-templates.py", r, nubiCharacter))
    /\ UNCHANGED <<errorHandler, analytics, raidSystem, securityFilter>>

RunNubiFinal ==
    /\ Len(hist) < MaxRuns
    /\ LET r == NubiFinal(nubiCharacter) IN
        /\ nubiCharacter' = r.out
        /\ hist' = Append(hist, Ran("fix-nubi-final.py", r, nubiCharacter))
    /\ UNCHANGED <<errorHandler, analytics, raidSystem, securityFilter>>

\* Lines of nubi-character.ts.
AnchorLine == <<AnchorText, NL>>

AnchorCommentLine == <<AnchorText, "//", NL>>

OpenLine == <<"x", "{", NL>>

CloseCommaLine == <<"}", ",", NL>>

CloseSemiLine == <<"}", ";", NL>>

CloseOpenLine == <<"}", ",", "x", "{", NL>>

DeleteLine == <<"delete", "nubiCharacter", ";", NL>>

DeleteCommentLine == <<"delete", "x", "//", NL>>

PlainLine == <<"x", ",", NL>>

AnchorOpenLine == <<AnchorText, "x", "{", NL>>

ExportLine == <<ExportText, NL>>

LineSet ==
    {AnchorLine, AnchorCommentLine, OpenLine, CloseCommaLine, CloseSemiLine,
     CloseOpenLine, DeleteLine, DeleteCommentLine, PlainLine, AnchorOpenLine}

\* What precedes the part of the file that varies: nothing, the character
\* object and its export, or a file whose templates are already inside the
\* character object.
Heads ==
    { <<>>,
      <<PlainLine, ExportLine>>,
      <<PlainLine, AnchorLine, CloseCommaLine, ExportLine>> }

InitTemplates ==
    /\ nubiCharacter \in {h \o t : h \in Heads, t \in SeqsUpTo(LineSet, MaxTail)}
    /\ errorHandler = <<>>
    /\ analytics = <<>>
    /\ raidSystem = <<>>
    /\ securityFilter = <<>>
    /\ hist = <<>>

NextTemplates == RunFixTemplates \/ RunNubiFinal

SpecTemplates == InitTemplates /\ [][NextTemplates]_vars

(***************************************************************************)
(* comprehensive-fix.py, error-handler.ts                                  *)
(***************************************************************************)
\* The three new lines (their template-literal punctuation left out).
NewLine34 ==
    <<"      logger.debug([serviceName] Executing methodName - JSON.stringify({ correlationId, context }));", NL>>

NewLine37 ==
    <<"      logger.debug([serviceName] methodName completed in duration ms - JSON.stringify({ correlationId }));", NL>>

NewLine107 ==
    <<"    logger.error(JSON.stringify({ error: serviceError.message, stack: serviceError.error?.stack, context, correlationId }));", NL>>

\* lines[i] = x
SetAt(lines, i, x) == [lines EXCEPT ![i + 1] = x]

\* if len(lines) > 34: lines[33] = ...
Replace34(lines) == IF Len(lines) > 34 THEN SetAt(lines, 33, NewLine34) ELSE lines

\* Replace37 writing lines[37] instead of lines[36].
Replace37Shifted(lines) == IF Len(lines) > 37 THEN SetAt(lines, 37, NewLine37) ELSE lines

\* if len(lines) > 37: lines[36] = ...
Replace37(lines) == IF Len(lines) > 37 THEN SetAt(lines, 36, NewLine37) ELSE lines

\* if len(lines) > 107: lines[106] = ...
Replace107(lines) == IF Len(lines) > 107 THEN SetAt(lines, 106, NewLine107) ELSE lines

MsgAllFixes == "All fixes applied!"

\* The error-handler.ts section of the script: the file is always written back.
ComprehensiveErrorHandler(lines) ==
    [out |-> Replace107(Replace37(Replace34(lines))), wrote |-> TRUE, msg |-> MsgAllFixes]

RunComprehensiveErrorHandler ==
    /\ Len(hist) < MaxRuns
    /\ LET r == ComprehensiveErrorHandler(errorHandler) IN
        /\ errorHandler' = r.out
        /\ hist' = Append(hist, Ran("comprehensive-fix.py", r, errorHandler))
    /\ UNCHANGED <<nubiCharacter, analytics, raidSystem, securityFilter>>

\* Lines of error-handler.ts: three texts, repeating.
ErrLine(k) ==
    CASE k % 3 = 0 -> <<"x", ";", NL>>
      [] k % 3 = 1 -> <<"x", "{", NL>>
      [] OTHER     -> <<"}", NL>>

InitLines ==
    /\ \E n \in 0..MaxErrLines, f \in 0..2 :
           errorHandler = [k \in 1..n |-> ErrLine(k + f)]
    /\ nubiCharacter = <<>>
    /\ analytics = <<>>
    /\ raidSystem = <<>>
    /\ securityFilter = <<>>
    /\ hist = <<>>

NextLines == RunComprehensiveErrorHandler

SpecLines == InitLines /\ [][NextLines]_vars

(***************************************************************************)
(* Whole-file substitutions.  A file read with read() is a sequence of      *)
(* tokens; a pattern is a sequence of tokens and matches where its tokens  *)
(* occur in a row.                                                         *)
(***************************************************************************)
RECURSIVE ReplaceAll(_, _, _)
\* content.replace(pat, rep): every occurrence, left to right, not overlapping
ReplaceAll(s, pat, rep) ==
    IF Len(s) < Len(pat) THEN s
    ELSE IF SubSeq(s, 1, Len(pat)) = pat
    THEN rep \o ReplaceAll(SubSeq(s, Len(pat) + 1, Len(s)), pat, rep)
    ELSE <<Head(s)>> \o ReplaceAll(Tail(s), pat, rep)

\* needle in content
InContent(s, needle) == Contains(s, needle)

Runtime == "runtime"

GetSettingPort == ".getSetting(\"SOCKET_IO_PORT\")"

OrDefault == " || \"3001\""

ParseIntOpen == "parseInt("

CloseParen == ")"

(***************************************************************************)
(* fix-event-emitter.py, socket-io-analytics-enhanced.ts                   *)
(***************************************************************************)
\* re.sub(r'\.getSetting\(("SOCKET_IO_PORT")\)', r'.getSetting(\1) || "3001"', content)
PortDefault(s) == ReplaceAll(s, <<GetSettingPort>>, <<GetSettingPort, OrDefault>>)

RECURSIVE RFind(_, _, _)
\* The last token at or before k that holds the needle, 0 when there is none.
RFind(s, needle, k) ==
    IF k = 0 THEN 0
    ELSE IF needle \in Substrings(s[k]) THEN k
    ELSE RFind(s, needle, k - 1)

\* if 'async stop()' not in content: class_end = content.rfind('}');
\* if class_end > 0: content = content[:class_end] + stop_method + content[class_end:]
\* (class_end > 0: the last '}' is found and is not the first character)
AddStop(s) ==
    IF InContent(s, "async stop()") THEN s
    ELSE LET k == RFind(s, "}", Len(s)) IN
         IF k > 1 THEN Upto(s, k - 1) \o <<StopMethod>> \o From(s, k - 1) ELSE s

EventEmitterAnalytics(s) ==
    [out |-> AddStop(PortDefault(s)), wrote |-> TRUE, msg |-> "Fixed socket-io-analytics-enhanced.ts"]

(***************************************************************************)
(* comprehensive-fix.py, socket-io-analytics-enhanced.ts                   *)
(***************************************************************************)
\* content.replace('runtime.getSetting("SOCKET_IO_PORT") || "3001"', 'parseInt(...)')
PortParseInt(s) ==
    ReplaceAll(s, <<Runtime, GetSettingPort, OrDefault>>,
                  <<ParseIntOpen, Runtime, GetSettingPort, OrDefault, CloseParen>>)

\* if 'private io:' not in content: content = content.replace(class line, class line + io line)
AddIo(s) ==
    IF InContent(s, "private io:") THEN s
    ELSE ReplaceAll(s, <<ClassDecl>>, <<ClassDecl, NL, IoDecl>>)

ComprehensiveAnalytics(s) ==
    [out |-> AddIo(PortParseInt(s)), wrote |-> TRUE, msg |-> "Fixing socket-io-analytics-enhanced.ts..."]

(***************************************************************************)
(* fix-raid-system.py                                                      *)
(***************************************************************************)
QuoteNumber == "quote: number;"

ViewNumber == "        view: number;"

Quote3 == "            quote: 3"

View1 == "            view: 1"

Comma == ","

CloseObj == "        }"

DotRaw == ".raw("

DotRpc == ".rpc("

CreateMemory == ".createMemory("

RaidContent == ", { text: \"Raid action performed\" })"

DotUserId == ".userId"

DotUserOptId == ".user?.id || \"\""

UserKey == "\"user\":"

UserIdKey == "\"userId\":"

ConstText == "const text = message.content?.text;"

ConstTextDefault == "const text = message.content?.text || \"\";"

IfText == "if (text.toLowerCase()"

IfTextGuard == "if (text && text.toLowerCase()"

\* content.replace('quote: number;', 'quote: number;\n        view: number;')
AddViewNumber(s) == ReplaceAll(s, <<QuoteNumber>>, <<QuoteNumber, NL, ViewNumber>>)

\* content.replace('quote: 3,\n        },', 'quote: 3,\n            view: 1,\n        },')
AddView1(s) ==
    ReplaceAll(s, <<Quote3, Comma, NL, CloseObj, Comma>>,
                  <<Quote3, Comma, NL, View1, Comma, NL, CloseObj, Comma>>)

RECURSIVE SkipSpace(_, _)
\* \s*: the index after the whitespace that starts at k
SkipSpace(s, k) ==
    IF k <= Len(s) /\ s[k] \in Whitespace THEN SkipSpace(s, k + 1) ELSE k

\* ,\s*(true|false)\) at q: the index after the match, 0 when it does not match
BoolArgAt(s, q) ==
    IF q > Len(s) \/ s[q] # Comma THEN 0
    ELSE LET b == SkipSpace(s, q + 1) IN
         IF b + 1 <= Len(s) /\ s[b] \in {"true", "false"} /\ s[b + 1] = CloseParen
         THEN b + 2 ELSE 0

RECURSIVE LazyArg(_, _)
\* (.*?) from q on: the first index at which the rest of the pattern matches,
\* 0 when a newline comes first or the content ends
LazyArg(s, q) ==
    IF q > Len(s) THEN 0
    ELSE IF BoolArgAt(s, q) # 0 THEN q
    ELSE IF s[q] = NL THEN 0
    ELSE LazyArg(s, q + 1)

RECURSIVE BoolToContent(_)
\* re.sub(r'\.createMemory\((.*?),\s*(true|false)\)', replace_bool_content, content)
BoolToContent(s) ==
    IF s = <<>> THEN s
    ELSE LET q == IF Head(s) = CreateMemory THEN LazyArg(s, 2) ELSE 0 IN
         IF q # 0
         THEN <<CreateMemory>> \o SubSeq(s, 2, q - 1) \o <<RaidContent>>
                  \o BoolToContent(SubSeq(s, BoolArgAt(s, q), Len(s)))
         ELSE <<Head(s)>> \o BoolToContent(Tail(s))

FixRaidSystem(s) ==
    LET s1 == AddViewNumber(s)
        s2 == AddView1(s1)
        s3 == ReplaceAll(s2, <<DotRaw>>, <<DotRpc>>)
        s4 == BoolToContent(s3)
        s5 == ReplaceAll(s4, <<DotUserId>>, <<DotUserOptId>>)
        s6 == ReplaceAll(s5, <<UserKey>>, <<UserIdKey>>)
        s7 == ReplaceAll(s6, <<ConstText>>, <<ConstTextDefault>>)
        s8 == ReplaceAll(s7, <<IfText>>, <<IfTextGuard>>)
    IN  [out |-> s8, wrote |-> TRUE, msg |-> "Fixed nubi-raid-system.ts compilation errors"]

(***************************************************************************)
(* Runs of the substitution scripts.                                       *)
(***************************************************************************)
RunEventEmitterAnalytics ==
    /\ Len(hist) < MaxRuns
    /\ LET r == EventEmitterAnalytics(analytics) IN
        /\ analytics' = r.out
        /\ hist' = Append(hist, Ran("fix-event-emitter.py", r, analytics))
    /\ UNCHANGED <<nubiCharacter, errorHandler, raidSystem, securityFilter>>

RunComprehensiveAnalytics ==
    /\ Len(hist) < MaxRuns
    /\ LET r == ComprehensiveAnalytics(analytics) IN
        /\ analytics' = r.out
        /\ hist' = Append(hist, Ran("comprehensive-fix.py", r, analytics))
    /\ UNCHANGED <<nubiCharacter, errorHandler, raidSystem, securityFilter>>

RunFixRaidSystem ==
    /\ Len(hist) < MaxRuns
    /\ LET r == FixRaidSystem(raidSystem) IN
        /\ raidSystem' = r.out
        /\ hist' = Append(hist, Ran("fix-raid-system.py", r, raidSystem))
    /\ UNCHANGED <<nubiCharacter, errorHandler, analytics, securityFilter>>

RECURSIVE Flatten(_)
Flatten(ss) == IF ss = <<>> THEN <<>> ELSE Head(ss) \o Flatten(Tail(ss))

\* Pieces of socket-io-analytics-enhanced.ts.
AnalyticsPieces ==
    { <<Runtime, GetSettingPort>>, <<GetSettingPort>>, <<OrDefault>>, <<ClassDecl, NL>>,
      <<"}">>, <<"x">>, <<StopHeader>>, <<IoDecl, NL>> }

\* Pieces of nubi-raid-system.ts.
RaidPieces ==
    { <<QuoteNumber>>, <<Quote3, Comma, NL>>, <<CloseObj, Comma>>, <<DotRaw>>,
      <<CreateMemory, "x">>, <<Comma, "true", CloseParen>>,
      <<Comma, NL, "false", CloseParen>>, <<DotUserId>>, <<UserKey>>, <<ConstText>>,
      <<IfText>>, <<"x">>, <<NL>> }

InitSubst ==
    /\ \/ /\ analytics \in {Flatten(ps) : ps \in SeqsUpTo(AnalyticsPieces, MaxContent)}
          /\ raidSystem = <<>>
       \/ /\ analytics = <<>>
          /\ raidSystem \in {Flatten(ps) : ps \in SeqsUpTo(RaidPieces, MaxContent)}
    /\ nubiCharacter = <<>>
    /\ errorHandler = <<>>
    /\ securityFilter = <<>>
    /\ hist = <<>>

NextSubst == RunEventEmitterAnalytics \/ RunComprehensiveAnalytics \/ RunFixRaidSystem

SpecSubst == InitSubst /\ [][NextSubst]_vars

(***************************************************************************)
(* fix-error-handler-final.py                                              *)
(***************************************************************************)
RECURSIVE LStrip(_)
LStrip(line) ==
    IF line = <<>> THEN <<>>
    ELSE IF Head(line) \in Whitespace THEN LStrip(Tail(line))
    ELSE line

\* line.strip()
Strip(line) == LStrip(RStrip(line))

\* The nine lines of the fixed method body (the template-literal punctuation
\* of the second left out).
FixedBody ==
    << <<"    logger.error(", NL>>,
       <<"      [error.service] error.method failed: error.error.message,", NL>>,
       <<"      JSON.stringify({", NL>>,
       <<"        stack: error.error.stack,", NL>>,
       <<"        context: error.context,", NL>>,
       <<"        correlationId: error.correlationId,", NL>>,
       <<"      })", NL>>,
       <<"    );", NL>>,
       <<"  ", "}", NL>> >>

RECURSIVE LogErrorLoop(_, _, _, _, _, _)
\* for i, line in enumerate(lines): the state is skip_lines, in_log_error,
\* log_error_fixed and fixed_lines
LogErrorLoop(lines, i, skip_lines, in_log_error, log_error_fixed, fixed_lines) ==
    IF i >= Len(lines) THEN fixed_lines
    ELSE LET line == lines[i + 1] IN
         IF Contains(line, LogErrorSig)
         THEN LogErrorLoop(lines, i + 1, TRUE, TRUE, TRUE,
                           Append(fixed_lines, line) \o FixedBody)
         ELSE IF skip_lines /\ in_log_error
         THEN IF Strip(line) = <<"}">> /\ ~log_error_fixed
              THEN LogErrorLoop(lines, i + 1, FALSE, FALSE, log_error_fixed, fixed_lines)
              ELSE IF Strip(line) = <<>> /\ log_error_fixed
              THEN LogErrorLoop(lines, i + 1, FALSE, FALSE, log_error_fixed,
                                Append(fixed_lines, line))
              ELSE LogErrorLoop(lines, i + 1, skip_lines, in_log_error, log_error_fixed,
                                fixed_lines)
         ELSE LogErrorLoop(lines, i + 1, skip_lines, in_log_error, log_error_fixed,
                           Append(fixed_lines, line))

MsgFixedErrorHandler == "Fixed error-handler.ts"

ErrorHandlerFinal(lines) ==
    [out   |-> LogErrorLoop(lines, 0, FALSE, FALSE, FALSE, <<>>),
     wrote |-> TRUE,
     msg   |-> MsgFixedErrorHandler]

RunErrorHandlerFinal ==
    /\ Len(hist) < MaxRuns
    /\ LET r == ErrorHandlerFinal(errorHandler) IN
        /\ errorHandler' = r.out
        /\ hist' = Append(hist, Ran("fix-error-handler-final.py", r, errorHandler))
    /\ UNCHANGED <<nubiCharacter, analytics, raidSystem, securityFilter>>

\* Lines of error-handler.ts around the logError method.
SigLine == <<"  ", LogErrorSig, NL>>

BraceLine == <<"  ", "}", NL>>

BlankLine == <<NL>>

BodyLine == <<"  ", "x", ";", NL>>

LogLines == {SigLine, BraceLine, BlankLine, BodyLine}

InitLogError ==
    /\ errorHandler \in SeqsUpTo(LogLines, MaxLog)
    /\ nubiCharacter = <<>>
    /\ analytics = <<>>
    /\ raidSystem = <<>>
    /\ securityFilter = <<>>
    /\ hist = <<>>

NextLogError == RunErrorHandlerFinal

SpecLogError == InitLogError /\ [][NextLogError]_vars

(***************************************************************************)
(* fix-spam-detection.py                                                   *)
(***************************************************************************)
Threshold10 == "const MESSAGE_THRESHOLD = 10;"

Threshold5 == "const MESSAGE_THRESHOLD = 5;"

IfGreater == "if (messageCount > MESSAGE_THRESHOLD) {"

IfGreaterEq == "if (messageCount >= MESSAGE_THRESHOLD) {"

SimilarMessages == "similarMessages"

RECURSIVE Find(_, _, _)
\* content.find(needle): the first token from k on that holds the needle,
\* 0 when there is none
Find(s, needle, k) ==
    IF k > Len(s) THEN 0
    ELSE IF needle \in Substrings(s[k]) THEN k
    ELSE Find(s, needle, k + 1)

\* The guard of the insertion.
InsertionGuard(s) == InContent(s, HistoryGet) /\ ~InContent(s, SimilarMessages)

\* if guard: insertion_point = content.find('// Check for rate limiting');
\* if insertion_point > 0: content = content[:insertion_point] + new_code + content[insertion_point:]
\* (insertion_point > 0: the comment is found and is not the first text of the file)
AddRepetitiveCheck(s) ==
    IF ~InsertionGuard(s) THEN s
    ELSE LET k == Find(s, RateComment, 1) IN
         IF k > 1 THEN Upto(s, k - 1) \o <<RepetitiveCheck>> \o From(s, k - 1) ELSE s

FixSpamDetection(s) ==
    LET s1 == ReplaceAll(s, <<Threshold10>>, <<Threshold5>>)
        s2 == ReplaceAll(s1, <<IfGreater>>, <<IfGreaterEq>>)
    IN  [out |-> AddRepetitiveCheck(s2), wrote |-> TRUE, msg |-> "Fixed spam detection"]

RunFixSpamDetection ==
    /\ Len(hist) < MaxRuns
    /\ LET r == FixSpamDetection(securityFilter) IN
        /\ securityFilter' = r.out
        /\ hist' = Append(hist, Ran("fix-spam-detection.py", r, securityFilter))
    /\ UNCHANGED <<nubiCharacter, errorHandler, analytics, raidSystem>>

\* Pieces of security-filter.ts.
SpamPieces ==
    { <<Threshold10>>, <<IfGreater>>, <<HistoryGet>>, <<RateComment>>,
      <<SimilarMessages>>, <<"x">>, <<NL>> }

InitSpam ==
    /\ securityFilter \in {Flatten(ps) : ps \in SeqsUpTo(SpamPieces, MaxContent)}
    /\ nubiCharacter = <<>>
    /\ errorHandler = <<>>
    /\ analytics = <<>>
    /\ raidSystem = <<>>
    /\ hist = <<>>

NextSpam == RunFixSpamDetection

SpecSpam == InitSpam /\ [][NextSpam]_vars

(***************************************************************************)
(* Properties of the runs on nubi-character.ts.                            *)
(***************************************************************************)
\* The file as run n left it.
After(n) == hist[n].after

TemplateRuns == {n \in 1..Len(hist) : hist[n].script = "fix-templates.py"}

FinalRuns == {n \in 1..Len(hist) : hist[n].script = "fix-nubi-final.py"}

\* The runs of fix-templates.py that found the anchor line after the export line.
AnchoredRuns == {n \in TemplateRuns : Relocates(hist[n].before)}

RECURSIVE RefTokens(_, _, _)
\* Delimiters of one line counted one at a time, left to right, from `depth`:
\* the depth after the line, or 0 as soon as a close delimiter brings it to 0.
RefTokens(line, k, depth) ==
    IF k > Len(line) THEN depth
    ELSE LET opened == depth + (IF "{" \in Substrings(line[k]) THEN 1 ELSE 0) IN
         IF "}" \in Substrings(line[k])
         THEN IF opened - 1 = 0 THEN 0 ELSE RefTokens(line, k + 1, opened - 1)
         ELSE RefTokens(line, k + 1, opened)

RECURSIVE RefLines(_, _, _)
\* The character-granular reference scanner: the index of the line holding the
\* first close delimiter that brings the depth to 0, None when there is none.
RefLines(lines, i, depth) ==
    IF i >= Len(lines) THEN None
    ELSE LET d == RefTokens(lines[i + 1], 1, depth) IN
         IF d = 0 THEN i ELSE RefLines(lines, i + 1, d)

RefEnd(lines) ==
    RefLines(lines, templates_start(lines) + 1,
             BraceDelta(lines[templates_start(lines) + 1]))

\* No line after the anchor line holds the anchor text again.
SingleAnchor(lines) ==
    \A i \in (templates_start(lines) + 1)..(Len(lines) - 1) :
        ~Contains(lines[i + 1], "templates: {")

\* C1: when the anchor line lies after the export line and the depth never
\* returns to 0 before the end of the buffer, the run does not report a
\* relocation, writes nothing and leaves the file as it was.
StatedC1 ==
    \A n \in AnchoredRuns :
        RefEnd(hist[n].before) = None
            => /\ hist[n].msg # MsgFixed
               /\ ~hist[n].wrote
               /\ After(n) = hist[n].before

\* C2: the extraction loop ends the block at the line holding the first close
\* delimiter that brings the depth to 0, counting delimiters one at a time from
\* depth = opens - closes of the anchor line (the reference scanner's result).
StatedC2 ==
    \A n \in AnchoredRuns :
        SingleAnchor(hist[n].before)
            => Extracted(hist[n].before).brk = RefEnd(hist[n].before)

RECURSIVE OrdinaryLoop(_, _, _, _)
\* The extraction loop with every line after the anchor line treated as block
\* content: kept, and its delimiters counted as the loop counts them.
OrdinaryLoop(lines, i, brace_count, keep) ==
    IF i >= Len(lines) THEN keep
    ELSE LET bc == brace_count + BraceDelta(lines[i + 1]) IN
         IF bc = 0 THEN Append(keep, lines[i + 1])
         ELSE OrdinaryLoop(lines, i + 1, bc, Append(keep, lines[i + 1]))

\* C3: only the first anchor match starts the block; a later line holding the
\* anchor text is kept in the extracted text and counted like any other line,
\* and never resets the depth.
StatedC3 ==
    \A n \in AnchoredRuns :
        LET b == hist[n].before IN
        Extracted(b).keep = OrdinaryLoop(b, templates_start(b) + 1, 1, lines_to_keep0(b))

\* b with one line left out
OneLineLess(b) == {Upto(b, k - 1) \o From(b, k) : k \in 1..Len(b)}

\* The anchor occurs once, after the export line, and its block is balanced.
WellFormed(b) ==
    /\ Relocates(b)
    /\ SingleAnchor(b)
    /\ RefEnd(b) # None
    /\ Extracted(b).brk = RefEnd(b)

\* C4: the relocation output determines the input: no other well-formed
\* buffer is mapped to the output a well-formed buffer was mapped to.
StatedC4 ==
    \A n \in AnchoredRuns :
        WellFormed(hist[n].before)
            => \A b2 \in OneLineLess(hist[n].before) :
                   (b2 # hist[n].before /\ WellFormed(b2))
                       => FixTemplates(b2).out # After(n)

\* C6: when a run of fix-templates.py relocated the block, the next run of
\* fix-templates.py finds no anchor, reports 'not found' and leaves the file
\* as the first run wrote it.
StatedC6 ==
    \A n \in AnchoredRuns :
        (n < Len(hist) /\ hist[n + 1].script = "fix-templates.py")
            => /\ templates_start(hist[n + 1].before) = None
               /\ hist[n + 1].msg = MsgNotFound
               /\ ~hist[n + 1].wrote
               /\ After(n + 1) = After(n)

\* The last line of the declaration as extracted, and as the run wrote it.
DeclLastIn(b) == Extracted(b).keep[Len(Extracted(b).keep)]

DeclLastOut(n) == After(n)[Len(Extracted(hist[n].before).keep)]

\* C9: when the last non-whitespace character of the extracted content is
\* ',', the run replaces it by ';' and changes nothing else of that line, so
\* that the declaration ends in one ';' and not in ',;'.
StatedC9 ==
    \A n \in AnchoredRuns :
        LET core == RStrip(DeclLastIn(hist[n].before)) IN
        (core # <<>> /\ core[Len(core)] = ",")
            => RStrip(DeclLastOut(n)) = [core EXCEPT ![Len(core)] = ";"]

TailPredicate(line) == Contains(line, "delete") \/ Contains(line, "//")

DeletePredicate(line) == Contains(line, "delete") /\ Contains(line, "nubiCharacter")

\* The lines of b that follow its export line.
AfterExport(b) == From(b, export_line(b) + 1)

\* C10: the lines appended after the relocated declaration (fix-templates.py)
\* and after the re-export (fix-nubi-final.py) are exactly the lines following
\* the export line that satisfy the script's predicate, verbatim, in their
\* original order, each once.
TailPreserved ==
    /\ \A n \in AnchoredRuns :
           LET b == hist[n].before
               d == Len(Extracted(b).keep)
           IN  /\ Len(After(n)) >= d
               /\ From(After(n), d) = SelectSeq(AfterExport(b), TailPredicate)
    /\ \A n \in FinalRuns :
           LET b == hist[n].before
               d == Len(clean_lines0(b))
           IN  hist[n].wrote
                   => /\ Len(After(n)) >= d
                      /\ From(After(n), d) = SelectSeq(AfterExport(b), DeletePredicate)

\* A relocating run whose tail has two lines, one of them satisfying both
\* alternatives of the predicate, and a clean-up run that kept a delete line.
TailPreservedWitness ==
    /\ Len(hist) = 2
    /\ 1 \in AnchoredRuns
    /\ Len(SelectSeq(AfterExport(hist[1].before), TailPredicate)) >= 2
    /\ \E k \in 1..Len(AfterExport(hist[1].before)) :
           /\ Contains(AfterExport(hist[1].before)[k], "delete")
           /\ Contains(AfterExport(hist[1].before)[k], "//")
    /\ 2 \in FinalRuns
    /\ hist[2].wrote
    /\ Len(SelectSeq(AfterExport(hist[2].before), DeletePredicate)) >= 1

(***************************************************************************)
(* Properties of the line replacements in error-handler.ts.                *)
(***************************************************************************)
ErrorHandlerRuns == {n \in 1..Len(hist) : hist[n].script = "comprehensive-fix.py"}

ReplacedIndex == {34, 37, 107}

NewLine(i) ==
    CASE i = 34 -> NewLine34
      [] i = 37 -> NewLine37
      [] OTHER  -> NewLine107

StatedC8 ==
    \A n \in ErrorHandlerRuns :
        (\E i \in ReplacedIndex : i > Len(hist[n].before))
            => hist[n].after = hist[n].before

(***************************************************************************)
(* Properties of the whole-file substitutions.                             *)
(***************************************************************************)
\* C5: a script's substitutions applied to the output of a first application
\* change nothing: when the same script runs twice in a row on a file, the
\* second run leaves the file as the first run left it.
StatedC5 ==
    \A n \in 1..(Len(hist) - 1) :
        (/\ hist[n + 1].script = hist[n].script
         /\ hist[n].script \in {"fix-event-emitter.py", "comprehensive-fix.py",
                                "fix-raid-system.py"}
         /\ hist[n + 1].before = hist[n].after)
            => hist[n + 1].after = hist[n].after

(***************************************************************************)
(* Properties of the tail and of repeated clean-up of nubi-character.ts.   *)
(***************************************************************************)
\* The index of the last line the extraction loop consumed: the line of its
\* `break`, or the last line of the buffer when range() ran out.
BlockLast(b) ==
    IF Extracted(b).brk # None THEN Extracted(b).brk ELSE Len(b) - 1

\* The lines after the export line that do not lie inside the relocated
\* block: those up to the anchor line and those after the block's last line.
Remaining(b) ==
    SubSeq(b, export_line(b) + 2, templates_start(b) + 1) \o From(b, BlockLast(b) + 1)

\* C11: the tail statements are collected from the lines that remain after
\* the block has been extracted: no line between the anchor line and the
\* block's closing delimiter is emitted again as a tail statement.  Stated
\* for well-formed buffers: one anchor, a balanced block.
StatedC11 ==
    \A n \in AnchoredRuns :
        LET b == hist[n].before
            d == Len(Extracted(b).keep)
        IN  WellFormed(b)
                => From(After(n), d) = SelectSeq(Remaining(b), TailPredicate)

RECURSIVE CountLines(_, _)
\* The number of lines of `lines` that hold the needle.
CountLines(lines, needle) ==
    IF lines = <<>> THEN 0
    ELSE (IF Contains(Head(lines), needle) THEN 1 ELSE 0) + CountLines(Tail(lines), needle)

\* C12: running the clean-up on a file it has already cleaned leaves the file
\* unchanged, with one 'import { nubiTemplates }' line and one
\* 'export { nubiTemplates }' line.
StatedC12 ==
    \A n \in FinalRuns :
        (/\ hist[n].wrote
         /\ n < Len(hist)
         /\ (n + 1) \in FinalRuns
         /\ hist[n + 1].before = After(n))
            => /\ After(n + 1) = After(n)
               /\ CountLines(After(n + 1), "import { nubiTemplates }") = 1
               /\ CountLines(After(n + 1), "export { nubiTemplates }") = 1

(***************************************************************************)
(* Properties of the logError rewrite.                                     *)
(***************************************************************************)
LogErrorRuns == {n \in 1..Len(hist) : hist[n].script = "fix-error-handler-final.py"}

RECURSIVE ClosingBrace(_, _)
\* The first line from index i on whose stripped text is '}', None when
\* there is none.
ClosingBrace(lines, i) ==
    IF i >= Len(lines) THEN None
    ELSE IF Strip(lines[i + 1]) = <<"}">> THEN i
    ELSE ClosingBrace(lines, i + 1)

SignatureAt(b) == FindFrom(b, LogErrorSig, 0)

\* C13: the lines skipped after the signature line are the old body up to and
\* including its closing brace (the first following line whose stripped text is
\* '}'); the lines before the signature and after that brace are copied
\* verbatim, in order, whether or not a blank line follows the method.
StatedC13 ==
    \A n \in LogErrorRuns :
        LET b == hist[n].before
            s == SignatureAt(b)
            c == ClosingBrace(b, s + 1)
        IN  (CountLines(b, LogErrorSig) = 1 /\ c # None)
                => After(n) = Upto(b, s + 1) \o FixedBody \o From(b, c + 1)

(***************************************************************************)
(* Properties of the spam-detection fix.                                   *)
(***************************************************************************)
SpamRuns == {n \in 1..Len(hist) : hist[n].script = "fix-spam-detection.py"}

\* The number of copies of the inserted block in the content.
Copies(s) == Cardinality({k \in 1..Len(s) : s[k] = RepetitiveCheck})

\* The file holds the two texts the insertion needs, the comment not being
\* the first text of the file, and does not hold 'similarMessages'.
Insertable(s) ==
    /\ InContent(s, HistoryGet)
    /\ ~InContent(s, SimilarMessages)
    /\ Find(s, RateComment, 1) > 1

\* C14: the insertion is applied at most once: after any number of runs on a
\* file that holds 'this.messageHistory.get(userId)' and '// Check for rate
\* limiting', the file holds exactly one copy of the inserted block.
StatedC14 ==
    \A n \in SpamRuns :
        (SpamRuns = 1..Len(hist) /\ Insertable(hist[1].before) /\ Copies(hist[1].before) = 0)
            => Copies(After(n)) = 1

====
